---------------------------- MODULE Spec2Model ----------------------------
(***************************************************************************)
(* A model of the ae event loop (src/src/ae.c, src/src/ae.h): the          *)
(* descriptor-indexed table of file events with its maxfd bookkeeping,     *)
(* the unsorted list of time events, and aeProcessEvents with the          *)
(* callbacks it invokes.  A callback is user code that runs on the loop's  *)
(* thread: while one is running it may call the loop's API, which is       *)
(* modelled by enabling the API actions while pc names the callback.       *)
(***************************************************************************)
EXTENDS Integers, Sequences, FiniteSets, TLC

(* ------------------------------ constants ------------------------------ *)

AE_OK == 0
AE_ERR == -1
AE_NONE == 0
AE_READABLE == 1
AE_WRITABLE == 2
AE_FILE_EVENTS == 1
AE_TIME_EVENTS == 2
AE_DONT_WAIT == 4
AE_NOMORE == -1

\* milliseconds in one second (the carry of aeAddMillisecondsToNow)
MsPerSec == 1000
\* microseconds in one millisecond (the timeout of aeProcessEvents)
UsecPerMs == 1000

(* ------------------------------- bounds -------------------------------- *)

\* the largest setsize the loop is resized to; descriptors are 0..MaxSetSize
MaxSetSize == 2
\* the longest batch of fired entries aeApiPoll reports
MaxFired == 2
\* the number of API calls one callback invocation makes at most
MaxCbCalls == 2
\* the number of timer identifiers handed out in one run of the model
MaxTimers == 2
\* the last second the wall clock reaches
MaxSec == 3
MaxNodes == 4
LongBits == 8

\* the setsize the loop is created with
InitSetSize == MaxSetSize
\* the seconds of the wall clock when the loop is created
InitSec == MaxSec - 1
\* the granularity of the modelled wall clock, in milliseconds
TickMs == MsPerSec \div 2

(* ------------------------------ bit masks ------------------------------ *)

RECURSIVE BitAnd(_, _)
BitAnd(a, b) ==
    IF a = 0 \/ b = 0 THEN 0
    ELSE (a % 2) * (b % 2) + 2 * BitAnd(a \div 2, b \div 2)

\* = in the place of |=
BitOr_Assign(a, b) == b

RECURSIVE BitOr(_, _)
BitOr(a, b) ==
    IF a = 0 THEN b
    ELSE IF b = 0 THEN a
    ELSE (IF a % 2 = 1 \/ b % 2 = 1 THEN 1 ELSE 0) + 2 * BitOr(a \div 2, b \div 2)

\* a & ~b
RECURSIVE BitClear(_, _)
BitClear(a, b) ==
    IF a = 0 THEN 0
    ELSE (IF a % 2 = 1 /\ b % 2 = 0 THEN 1 ELSE 0) + 2 * BitClear(a \div 2, b \div 2)

Has(m, bit) == BitAnd(m, bit) # 0

(* ------------------------------ the state ------------------------------ *)

VARIABLES
    setsize,          \* eventLoop->setsize
    maxfd,            \* eventLoop->maxfd
    events,           \* eventLoop->events: [0..setsize-1 -> aeFileEvent]
    fired,            \* eventLoop->fired, as aeApiPoll filled it
    numevents,        \* aeProcessEvents: numevents
    j,                \* aeProcessEvents: the index of the fired entry
    cur,              \* aeProcessEvents: the locals fd, mask, rfired
    fe,               \* aeProcessEvents: what the pointer fe reads
    timeEventHead,    \* the list of time events, head first
    timeEventNextId,  \* eventLoop->timeEventNextId
    lastTime,         \* eventLoop->lastTime
    stop,             \* eventLoop->stop
    beforesleep,      \* eventLoop->beforesleep
    main,             \* whether aeMain is running: "out" or "in"
    adlist,           \* a list: head, tail, len and the three methods
    nodes,            \* the list nodes in memory, by address
    lret,             \* what the last list function returned
    freed,            \* the values the free method of the list was called with
    iter,             \* a list iterator: next and direction
    nret,             \* the node the last listNext or listIndex returned
    copy,             \* the list listDup builds
    lhist,            \* bookkeeping of one iteration: not program state
    te,               \* processTimeEvents: the pointer te
    maxId,            \* processTimeEvents: maxId
    pc,               \* where the loop's thread is
    flags,            \* aeProcessEvents: flags
    processed,        \* aeProcessEvents + processTimeEvents: processed
    tvp,              \* aeProcessEvents: the timeout handed to aeApiPoll
    cb,               \* the callback that is running, with its arguments
    ret,              \* what the last API call returned
    clock,            \* the wall clock: [sec, ms]
    hist              \* what has been observed of the run (see HistInit)

fileVars == <<setsize, maxfd, events>>
dispVars == <<fired, numevents, j, cur, fe>>
timeVars == <<timeEventHead, timeEventNextId, lastTime>>
passVars == <<te, maxId>>
callVars == <<pc, flags, processed, tvp>>
mainVars == <<stop, beforesleep, main>>
iterVars == <<iter, nret, copy, lhist>>
listVars == <<adlist, nodes, lret, freed, iterVars>>
aeVars == <<fileVars, dispVars, timeVars, mainVars, passVars, callVars,
            cb, ret, clock, hist>>
vars == <<setsize, maxfd, events, fired, numevents, j, cur, fe,
          timeEventHead, timeEventNextId, lastTime, stop, beforesleep, main,
          te, maxId,
          pc, flags, processed, tvp, cb, ret, clock, hist,
          adlist, nodes, lret, freed, iter, nret, copy, lhist>>

\* a pointer field that was never assigned
Uninit == "uninit"
NULL == "NULL"

\* the functions and client data the application registers
Procs == {"f", "g"}
ClientDatas == {"d1", "d2"}
\* the interest masks an application registers: ae.h "one of
\* AE_(READABLE|WRITABLE)", ae.c "any combination of AE_READABLE and AE_WRITABLE"
FileMasks == {AE_READABLE, AE_WRITABLE, AE_READABLE + AE_WRITABLE}
\* the masks handed to aeDeleteFileEvent
DelMasks == {AE_NONE} \cup FileMasks

\* zmalloc'ed memory: the pointers are garbage, mask is whatever the caller sets
FreshSlot(m) ==
    [mask |-> m, rfileProc |-> Uninit, wfileProc |-> Uninit, clientData |-> Uninit]

NoCur == [fd |-> -1, mask |-> 0, rfired |-> 0]
NoFe == [kind |-> "none", slot |-> FreshSlot(AE_NONE)]
NoCb == [proc |-> NULL, arg |-> -1, clientData |-> NULL, mask |-> 0, calls |-> 0]
NoTe == [kind |-> "null", id |-> -1]
NoTvp == [kind |-> "nopoll", tv_sec |-> 0, tv_usec |-> 0]

\* the record of what the run has shown so far
HistInit ==
    [ issued |-> <<>>,        \* the identifiers aeCreateTimeEvent returned
      finLog |-> <<>>,        \* the client data of each finalizer invocation
      created |-> {},         \* identifiers created since the pass began
      atStart |-> {},         \* identifiers pending when the pass began
      invoked |-> {},         \* identifiers whose callback the pass invoked
      deleted |-> {},         \* identifiers aeDeleteTimeEvent removed in the pass
      skew |-> FALSE,         \* the pass began with now < lastTime
      done |-> {},            \* identifiers whose callback returned AE_NOMORE
      uaf |-> FALSE,          \* the pass wrote through a freed te
      ticked |-> FALSE,       \* a firing pass has run on this loop
      back |-> FALSE,         \* the clock was set backwards since that pass
      backAtStart |-> FALSE,  \* ... and before the pass that is running
      due |-> {} ]            \* fire times that a write through a stale te replaced

\* the memory of list nodes: addresses, the null pointer, a node that is
\* not allocated
Addrs == 1..MaxNodes
NullNode == 0
Values == {"a", "b"}
FreeNode == [live |-> FALSE, prev |-> NullNode, next |-> NullNode, value |-> Uninit]

\* the list listCreate returns
EmptyList == [head |-> NullNode, tail |-> NullNode, len |-> 0,
              dup |-> NULL, free |-> NULL, match |-> NULL]

\* the directions of an iterator
AL_START_HEAD == 0
AL_START_TAIL == 1

\* no iterator is allocated
NoIter == [live |-> FALSE, next |-> NullNode, direction |-> AL_START_HEAD]

\* the nodes of the list in the order of the iteration when it began, the
\* nodes listNext has returned since, and whether it read a released node
NoIteration == [start |-> <<>>, visited |-> <<>>, uaf |-> FALSE]

Init ==
    /\ setsize = InitSetSize
    /\ maxfd = -1
    /\ events = [i \in 0..(InitSetSize - 1) |-> FreshSlot(AE_NONE)]
    /\ fired = <<>>
    /\ numevents = 0
    /\ j = 0
    /\ cur = NoCur
    /\ fe = NoFe
    /\ timeEventHead = <<>>
    /\ timeEventNextId = 0
    /\ clock = [sec |-> InitSec, ms |-> 0]
    /\ lastTime = InitSec
    /\ stop = 0
    /\ beforesleep = NULL
    /\ main = "out"
    /\ te = NoTe
    /\ maxId = -1
    /\ pc = "idle"
    /\ flags = 0
    /\ processed = 0
    /\ tvp = NoTvp
    /\ cb = NoCb
    /\ ret = AE_OK
    /\ hist = HistInit
    /\ adlist = EmptyList
    /\ nodes = [a \in Addrs |-> FreeNode]
    /\ lret = "list"
    /\ freed = {}
    /\ iter = NoIter
    /\ nret = NullNode
    /\ copy = EmptyList
    /\ lhist = NoIteration

(* ---------------------------- calling context -------------------------- *)

CallbackPcs == {"rfileProc", "wfileProc", "timeProc", "beforesleep"}

\* the API is called by the application between ticks, or by a callback
CanCall ==
    \/ pc = "idle" /\ main = "out"
    \/ pc \in CallbackPcs /\ cb.calls < MaxCbCalls

\* one more API call made by the running callback
Called == IF pc \in CallbackPcs THEN [cb EXCEPT !.calls = @ + 1] ELSE cb

(* --------------------------- file events API --------------------------- *)

\* the values an int of uninitialised memory is read as, as far as a mask goes
GarbageMasks == 0..(AE_READABLE + AE_WRITABLE)

\* the loop that sets the masks of the new slots is left out
ResizedEvents_NoInit(n, g) ==
    [i \in 0..(n - 1) |-> IF i < setsize THEN events[i] ELSE FreshSlot(g)]

\* aeResizeSetSize's zrealloc of the events array followed by its loop over
\* maxfd+1..setsize-1: slots past the old size hold garbage (mask g) until
\* the loop sets their mask to AE_NONE
ResizedEvents(n, g) ==
    [i \in 0..(n - 1) |->
        LET old == IF i < setsize THEN events[i] ELSE FreshSlot(g)
        IN  IF i >= maxfd + 1 THEN [old EXCEPT !.mask = AE_NONE] ELSE old]

\* what fe reads after the events array was reallocated while a read callback
\* runs: the array may have moved (fe then reads the freed copy), and a slot
\* cut off by a smaller setsize is outside the array
FeAfterResize(n, moved) ==
    IF pc = "rfileProc" /\ fe.kind = "live" /\ (moved \/ cur.fd >= n)
    THEN [kind |-> "stale", slot |-> events[cur.fd]]
    ELSE fe

\* a resize that would cut off a registered descriptor is asked for
ResizeRejected_Off(n) == maxfd > n

\* if (eventLoop->maxfd >= setsize) return AE_ERR
ResizeRejected(n) == maxfd >= n

aeResizeSetSize(n) ==
    /\ CanCall
    /\ cb' = Called
    /\ IF n = setsize THEN
            /\ ret' = AE_OK
            /\ UNCHANGED <<fileVars, fe>>
       ELSE IF ResizeRejected(n) THEN
            /\ ret' = AE_ERR
            /\ UNCHANGED <<fileVars, fe>>
       ELSE
            \/ \* aeApiResize fails
               /\ ret' = AE_ERR
               /\ UNCHANGED <<fileVars, fe>>
            \/ \E g \in (IF n > setsize THEN GarbageMasks ELSE {AE_NONE}),
                  moved \in (IF pc = "rfileProc" /\ fe.kind = "live"
                             THEN BOOLEAN ELSE {FALSE}) :
                   /\ events' = ResizedEvents(n, g)
                   /\ fe' = FeAfterResize(n, moved)
                   /\ setsize' = n
                   /\ ret' = AE_OK
                   /\ UNCHANGED maxfd
    /\ UNCHANGED <<fired, numevents, j, cur, timeVars, mainVars, listVars, passVars,
                   callVars, clock, hist>>

\* a descriptor equal to setsize is let through
OutOfRange_Above(fd) == fd > setsize

\* if (fd >= eventLoop->setsize): errno = ERANGE
OutOfRange(fd) == fd >= setsize

\* the handle of the first registration is kept
StoredData_Keep(old, clientData) == IF old = Uninit THEN clientData ELSE old

\* fe->clientData = clientData, whatever the mask (ae.c 222)
StoredData(old, clientData) == clientData

aeCreateFileEvent(fd, mask, proc, clientData) ==
    /\ CanCall
    /\ cb' = Called
    /\ IF OutOfRange(fd) THEN
            /\ ret' = AE_ERR
            /\ UNCHANGED fileVars
       ELSE
         \/ \* aeApiAddEvent fails
            /\ ret' = AE_ERR
            /\ UNCHANGED fileVars
         \/ /\ events' = [events EXCEPT ![fd] =
                   [mask |-> BitOr(@.mask, mask),
                    rfileProc |-> IF Has(mask, AE_READABLE) THEN proc ELSE @.rfileProc,
                    wfileProc |-> IF Has(mask, AE_WRITABLE) THEN proc ELSE @.wfileProc,
                    clientData |-> StoredData(@.clientData, clientData)]]
            /\ maxfd' = IF fd > maxfd THEN fd ELSE maxfd
            /\ ret' = AE_OK
            /\ UNCHANGED setsize
    /\ UNCHANGED <<dispVars, timeVars, mainVars, listVars, passVars, callVars, clock, hist>>

\* no scan: the descriptor below the deleted one is taken for registered
ScanDown_NoScan(ev, k) == k

\* the downward scan of aeDeleteFileEvent: for (j = maxfd-1; j >= 0; j--)
RECURSIVE ScanDown(_, _)
ScanDown(ev, k) ==
    IF k < 0 THEN k
    ELSE IF ev[k].mask # AE_NONE THEN k
    ELSE ScanDown(ev, k - 1)

aeDeleteFileEvent(fd, mask) ==
    /\ CanCall
    /\ cb' = Called
    /\ IF fd >= setsize THEN UNCHANGED fileVars
       ELSE IF events[fd].mask = AE_NONE THEN UNCHANGED fileVars
       ELSE
            /\ events' = [events EXCEPT ![fd].mask = BitClear(@, mask)]
            /\ maxfd' = IF fd = maxfd /\ events'[fd].mask = AE_NONE
                        THEN ScanDown(events', maxfd - 1)
                        ELSE maxfd
            /\ UNCHANGED setsize
    /\ UNCHANGED <<dispVars, timeVars, mainVars, listVars, passVars, callVars, clock, hist, ret>>

aeGetFileEvents(fd) ==
    IF fd >= setsize THEN 0 ELSE events[fd].mask

(* ------------------------------ wall clock ----------------------------- *)

\* aeGetTime: the clock in seconds and milliseconds; time(NULL) is clock.sec
Normalize(totalMs) == [sec |-> totalMs \div MsPerSec, ms |-> totalMs % MsPerSec]

\* the milliseconds are added without the carry into the seconds
aeAddMillisecondsToNow_NoCarry(milliseconds) ==
    [sec |-> clock.sec + (milliseconds \div MsPerSec),
     ms |-> clock.ms + (milliseconds % MsPerSec)]

\* aeAddMillisecondsToNow
aeAddMillisecondsToNow(milliseconds) ==
    LET when_sec == clock.sec + (milliseconds \div MsPerSec)
        when_ms == clock.ms + (milliseconds % MsPerSec)
    IN  IF when_ms >= MsPerSec
        THEN [sec |-> when_sec + 1, ms |-> when_ms - MsPerSec]
        ELSE [sec |-> when_sec, ms |-> when_ms]

\* the clock moves on by step milliseconds
Tick(step) ==
    /\ clock.sec < MaxSec
    /\ clock' = Normalize(clock.sec * MsPerSec + clock.ms + step)
    /\ UNCHANGED <<fileVars, dispVars, timeVars, mainVars, listVars, passVars, callVars,
                   cb, ret, hist>>

\* the clock is set backwards, to a time after the epoch second
ClockBack(sec, ms) ==
    /\ sec >= 1
    /\ sec * MsPerSec + ms < clock.sec * MsPerSec + clock.ms
    /\ clock' = [sec |-> sec, ms |-> ms]
    /\ hist' = [hist EXCEPT !.back = @ \/ (pc = "idle" /\ hist.ticked)]
    /\ UNCHANGED <<fileVars, dispVars, timeVars, mainVars, listVars, passVars, callVars,
                   cb, ret>>

(* --------------------------- time events API --------------------------- *)

Ids(list) == {list[i].id : i \in 1..Len(list)}

\* the replaced fire times without those of the timer id
Undue(due, id) == {d \in due : d.id # id}

\* the fire time the timer was given by aeCreateTimeEvent or by the return
\* value of its own callback: that of its record, unless a write through a
\* stale te has replaced it
Due(t) ==
    IF \E d \in hist.due : d.id = t.id
    THEN LET d == CHOOSE e \in hist.due : e.id = t.id
         IN  [sec |-> d.sec, ms |-> d.ms]
    ELSE [sec |-> t.when_sec, ms |-> t.when_ms]

\* the position of the node with the identifier in the list, 0 when absent
RECURSIVE IndexOf(_, _, _)
IndexOf(list, id, i) ==
    IF i > Len(list) THEN 0
    ELSE IF list[i].id = id THEN i
    ELSE IndexOf(list, id, i + 1)

\* the nodes after the unlinked one are lost with it
Unlink_DropTail(list, k) == SubSeq(list, 1, k - 1)

\* the list with its node at position k unlinked
Unlink(list, k) == SubSeq(list, 1, k - 1) \o SubSeq(list, k + 1, Len(list))

\* a pointer to the head of the list
HeadPtr(list) == IF list = <<>> THEN NoTe ELSE [kind |-> "node", id |-> list[1].id]

\* te->next
NextPtr(list, id) ==
    LET k == IndexOf(list, id, 1)
    IN  IF k = 0 \/ k = Len(list) THEN NoTe ELSE [kind |-> "node", id |-> list[k + 1].id]

InPass == pc \in {"timeLoop", "timeProc"}

\* long long id = eventLoop->timeEventNextId++
NextIdAfter(n) == n + 1

aeCreateTimeEvent(milliseconds, proc, clientData, finalizerProc) ==
    /\ CanCall
    /\ timeEventNextId < MaxTimers
    /\ cb' = Called
    /\ timeEventNextId' = NextIdAfter(timeEventNextId)
    /\ LET id == timeEventNextId
           when == aeAddMillisecondsToNow(milliseconds)
           node == [id |-> id, when_sec |-> when.sec, when_ms |-> when.ms,
                    timeProc |-> proc, finalizerProc |-> finalizerProc,
                    clientData |-> clientData]
       IN  \/ \* zmalloc fails
              /\ ret' = AE_ERR
              /\ UNCHANGED <<timeEventHead, te, hist>>
           \/ \* zmalloc may hand out the record a dangling te points to
              \E reuse \in (IF te.kind = "freed" THEN BOOLEAN ELSE {FALSE}) :
                /\ timeEventHead' = <<node>> \o timeEventHead
                /\ ret' = id
                /\ te' = IF reuse THEN [kind |-> "node", id |-> id] ELSE te
                /\ hist' = [hist EXCEPT
                       !.issued = Append(@, id),
                       !.created = IF InPass THEN @ \cup {id} ELSE @]
    /\ UNCHANGED <<fileVars, dispVars, lastTime, mainVars, listVars, maxId, callVars, clock>>

\* the list after aeDeleteTimeEvent(id): the first node with the identifier
\* is unlinked
DeletedList(list, id) ==
    LET k == IndexOf(list, id, 1)
    IN  IF k = 0 THEN list ELSE Unlink(list, k)

\* the finalizer calls after aeDeleteTimeEvent(id)
FinalizedLog(log, list, id) ==
    LET k == IndexOf(list, id, 1)
    IN  IF k # 0 /\ list[k].finalizerProc # NULL
        THEN Append(log, list[k].clientData) ELSE log

aeDeleteTimeEvent(id) ==
    /\ CanCall
    /\ cb' = Called
    /\ timeEventHead' = DeletedList(timeEventHead, id)
    /\ ret' = IF IndexOf(timeEventHead, id, 1) # 0 THEN AE_OK ELSE AE_ERR
    \* zfree(te): a pointer to the record now dangles
    /\ te' = IF te.kind = "node" /\ te.id = id THEN [te EXCEPT !.kind = "freed"] ELSE te
    /\ hist' = [hist EXCEPT
           !.finLog = FinalizedLog(@, timeEventHead, id),
           !.deleted = IF InPass /\ id \in Ids(timeEventHead) THEN @ \cup {id} ELSE @,
           !.due = Undue(@, id)]
    /\ UNCHANGED <<fileVars, dispVars, timeEventNextId, lastTime, mainVars, listVars, maxId,
                   callVars, clock>>

\* the head of the list is taken for the nearest
Nearest_Head(list, i, nearest) == IF Len(list) = 0 THEN 0 ELSE 1

\* aeSearchNearestTimer: the position of the first node with the smallest
\* (when_sec, when_ms), 0 for an empty list
RECURSIVE Nearest(_, _, _)
Nearest(list, i, nearest) ==
    IF i > Len(list) THEN nearest
    ELSE IF nearest = 0
            \/ list[i].when_sec < list[nearest].when_sec
            \/ (list[i].when_sec = list[nearest].when_sec
                /\ list[i].when_ms < list[nearest].when_ms)
         THEN Nearest(list, i + 1, i)
         ELSE Nearest(list, i + 1, nearest)

aeSearchNearestTimer == Nearest(timeEventHead, 1, 0)

(* ----------------------------- aeProcessEvents ------------------------- *)

\* the delta to the time event t: subtraction with borrow, negative fields
\* set to zero (ae.c 624-646)
TimeoutTo(t) ==
    LET borrow == t.when_ms < clock.ms
        sec == IF borrow THEN (t.when_sec - clock.sec) - 1
               ELSE t.when_sec - clock.sec
        usec == IF borrow THEN ((t.when_ms + MsPerSec) - clock.ms) * UsecPerMs
                ELSE (t.when_ms - clock.ms) * UsecPerMs
    IN  [kind |-> "tv",
         tv_sec |-> IF sec < 0 THEN 0 ELSE sec,
         tv_usec |-> IF usec < 0 THEN 0 ELSE usec]

\* the timeout aeProcessEvents computes for aeApiPoll (ae.c 614-662)
PollTimeout(fl) ==
    LET shortest == IF Has(fl, AE_TIME_EVENTS) /\ ~Has(fl, AE_DONT_WAIT)
                    THEN aeSearchNearestTimer ELSE 0
    IN  IF shortest # 0 THEN TimeoutTo(timeEventHead[shortest])
        ELSE IF Has(fl, AE_DONT_WAIT) THEN [kind |-> "tv", tv_sec |-> 0, tv_usec |-> 0]
        ELSE [kind |-> "null", tv_sec |-> 0, tv_usec |-> 0]

\* aeApiPoll: the batches the backend may report: distinct descriptors, each
\* subscribed in every direction of its fired mask, in any order
FiredEntries ==
    {e \in [fd : 0..(setsize - 1), mask : FileMasks] :
        BitClear(e.mask, events[e.fd].mask) = 0}

aeApiPoll ==
    {s \in UNION {[1..n -> FiredEntries] : n \in 0..MaxFired} :
        \A a, b \in DOMAIN s : a # b => s[a].fd # s[b].fd}

\* the counter processed, followed up to MaxProcessed
MaxProcessed == MaxFired + MaxTimers + 1
Inc(n) == IF n < MaxProcessed THEN n + 1 ELSE n

\* the flag combination aeMain asks for
AE_ALL_EVENTS == AE_FILE_EVENTS + AE_TIME_EVENTS

\* only the empty flag word is taken for a call that asks for nothing
NothingRequested_Zero(fl) == fl = 0

\* if (!(flags & AE_TIME_EVENTS) && !(flags & AE_FILE_EVENTS)) return 0
NothingRequested(fl) == ~Has(fl, AE_TIME_EVENTS) /\ ~Has(fl, AE_FILE_EVENTS)

\* aeProcessEvents from its entry to the head of the loop over the fired
\* entries (ae.c 588-665)
BeginProcessEvents(fl, polled) ==
    /\ IF NothingRequested(fl) THEN
            /\ ret' = 0
            /\ UNCHANGED <<fired, numevents, j, callVars>>
       ELSE
            /\ flags' = fl
            /\ processed' = 0
            /\ UNCHANGED ret
            /\ IF maxfd # -1 \/ (Has(fl, AE_TIME_EVENTS) /\ ~Has(fl, AE_DONT_WAIT)) THEN
                    /\ tvp' = PollTimeout(fl)
                    /\ fired' = polled
                    /\ numevents' = Len(polled)
                    /\ j' = 0
                    /\ pc' = "fileLoop"
               ELSE
                    /\ polled = <<>>
                    /\ tvp' = NoTvp
                    /\ pc' = "timeCheck"
                    /\ UNCHANGED <<fired, numevents, j>>
    /\ UNCHANGED <<fileVars, cur, fe, timeVars, passVars, clock, hist>>

\* aeProcessEvents called by the application
aeProcessEvents(fl, polled) ==
    /\ pc = "idle"
    /\ main = "out"
    /\ BeginProcessEvents(fl, polled)
    /\ UNCHANGED <<cb, mainVars, listVars>>

\* what a read through fe yields
FeSlot(p) == IF p.kind = "live" THEN events[cur.fd] ELSE p.slot

\* memory outside the events array: any mask, any pointers
OobSlots ==
    [mask : 0..(AE_READABLE + AE_WRITABLE), rfileProc : Procs \cup {Uninit},
     wfileProc : Procs \cup {Uninit}, clientData : {Uninit}]

\* eventLoop->fired[j]: the entry aeApiPoll stored, or, past the end of a
\* fired array that aeResizeSetSize has shrunk, that entry or anything else
FiredReads ==
    IF j < setsize THEN {fired[j + 1]}
    ELSE {fired[j + 1]} \cup [fd : 0..MaxSetSize, mask : GarbageMasks]

\* fe = &eventLoop->events[fd]: a slot of the array, or memory past its end
FePointers(fd) ==
    IF fd < setsize
    THEN {[kind |-> "live", slot |-> FreshSlot(AE_NONE)]}
    ELSE {[kind |-> "stale", slot |-> oob] : oob \in OobSlots}

\* a call through a function pointer of a file event
InvokeFile(proc, where, slot, c) ==
    IF proc = Uninit THEN
        /\ pc' = "crash"
        /\ cb' = NoCb
    ELSE
        /\ pc' = where
        /\ cb' = [proc |-> proc, arg |-> c.fd, clientData |-> slot.clientData,
                  mask |-> c.mask, calls |-> 0]

\* the end of one iteration of the loop over the fired entries (ae.c 694)
EntryDone ==
    /\ processed' = Inc(processed)
    /\ j' = j + 1
    /\ pc' = "fileLoop"
    /\ cb' = NoCb
    /\ cur' = NoCur
    /\ fe' = NoFe

\* the test for the write callback and its call (ae.c 689-693), reading
\* slot through fe, with the locals c
WriteStep(slot, c, p) ==
    IF Has(BitAnd(slot.mask, c.mask), AE_WRITABLE)
       /\ (c.rfired = 0 \/ slot.wfileProc # slot.rfileProc)
    THEN
        /\ InvokeFile(slot.wfileProc, "wfileProc", slot, c)
        /\ cur' = c
        /\ fe' = p
        /\ UNCHANGED <<processed, j>>
    ELSE EntryDone

\* one fired entry: the locals are set, then the read callback is called or
\* the write test is made (ae.c 666-686)
FileDispatch ==
    /\ pc = "fileLoop"
    /\ j < numevents
    /\ \E entry \in FiredReads : \E p \in FePointers(entry.fd) :
       LET slot == IF p.kind = "live" THEN events[entry.fd] ELSE p.slot
           c == [fd |-> entry.fd, mask |-> entry.mask, rfired |-> 0]
       IN  IF Has(BitAnd(slot.mask, c.mask), AE_READABLE) THEN
                /\ InvokeFile(slot.rfileProc, "rfileProc", slot, c)
                /\ cur' = [c EXCEPT !.rfired = 1]
                /\ fe' = p
                /\ UNCHANGED <<processed, j>>
           ELSE WriteStep(slot, c, p)
    /\ UNCHANGED <<fileVars, fired, numevents, timeVars, mainVars, listVars, passVars,
                   flags, tvp, ret, clock, hist>>

\* the read callback returns: the write test is made through fe
RFileProcReturn ==
    /\ pc = "rfileProc"
    /\ WriteStep(FeSlot(fe), cur, fe)
    /\ UNCHANGED <<fileVars, fired, numevents, timeVars, mainVars, listVars, passVars,
                   flags, tvp, ret, clock, hist>>

\* the write callback returns
WFileProcReturn ==
    /\ pc = "wfileProc"
    /\ EntryDone
    /\ UNCHANGED <<fileVars, fired, numevents, timeVars, mainVars, listVars, passVars,
                   flags, tvp, ret, clock, hist>>

\* the loop is left whatever is still to be served
FiredDone_Early == TRUE

\* for (j = 0; j < numevents; j++): every fired entry has been served
FiredDone == j >= numevents

\* the loop over the fired entries is over
FileLoopEnd ==
    /\ pc = "fileLoop"
    /\ FiredDone
    /\ pc' = "timeCheck"
    /\ UNCHANGED <<fileVars, dispVars, timeVars, mainVars, listVars, passVars, flags,
                   processed, tvp, cb, ret, clock, hist>>

(* ---------------------------- processTimeEvents ------------------------ *)

\* aeProcessEvents returns n: its locals die, and the fired entries are
\* valid only until the next poll
Return(n) ==
    /\ ret' = n
    /\ pc' = IF main = "in" THEN "mainTest" ELSE "idle"
    /\ flags' = 0
    /\ processed' = 0
    /\ tvp' = NoTvp
    /\ fired' = <<>>
    /\ numevents' = 0
    /\ j' = 0
    /\ te' = NoTe
    /\ maxId' = -1
    /\ hist' = [hist EXCEPT !.created = {}, !.atStart = {}, !.invoked = {},
                            !.deleted = {}, !.skew = FALSE, !.uaf = FALSE,
                            !.backAtStart = FALSE,
                            !.ticked = @ \/ pc = "timeLoop"]

\* the clock skew test of processTimeEvents (ae.c 485)
SkewDetected(now) == now < lastTime

\* the seconds are left as they are
ZeroedSeconds_Off(list) == list

\* te->when_sec = 0 for every time event (ae.c 486-490)
ZeroedSeconds(list) ==
    [i \in 1..Len(list) |-> [list[i] EXCEPT !.when_sec = 0]]

\* the start of processTimeEvents: the skew test, lastTime, te and maxId
\* (ae.c 464-497)
BeginPass ==
    LET now == clock.sec
        skew == SkewDetected(now)
        list == IF skew THEN ZeroedSeconds(timeEventHead) ELSE timeEventHead
    IN  /\ timeEventHead' = list
        /\ lastTime' = now
        /\ te' = HeadPtr(list)
        /\ maxId' = timeEventNextId - 1
        /\ pc' = "timeLoop"
        /\ hist' = [hist EXCEPT !.skew = clock.sec < lastTime,
                                !.atStart = Ids(timeEventHead),
                                !.invoked = {}, !.created = {}, !.deleted = {},
                                !.backAtStart = hist.back, !.back = FALSE,
                                !.due = IF skew
                                        THEN {[d EXCEPT !.sec = 0] : d \in @}
                                        ELSE @]
        /\ UNCHANGED <<timeEventNextId, fired, numevents, j, flags, processed,
                       tvp, ret>>

\* if (flags & AE_TIME_EVENTS) processed += processTimeEvents(eventLoop)
TimeCheck ==
    /\ pc = "timeCheck"
    /\ IF Has(flags, AE_TIME_EVENTS) THEN BeginPass
       ELSE Return(processed) /\ UNCHANGED timeVars
    /\ UNCHANGED <<fileVars, cur, fe, mainVars, listVars, cb, clock>>

\* no timer is passed over
Skipped_Never(t) == FALSE

\* a timer whose identifier is above maxId is passed over (ae.c 506-509)
Skipped(t) == t.id > maxId

\* the ripeness test (ae.c 517-518)
Ripe(t) ==
    \/ clock.sec > t.when_sec
    \/ (clock.sec = t.when_sec /\ clock.ms >= t.when_ms)

\* one iteration of the while loop of processTimeEvents, up to the call of
\* the time callback (ae.c 498-525, 556-560)
TimeLoopStep ==
    /\ pc = "timeLoop"
    /\ IF te.kind = "null" THEN
            /\ Return(processed)
            /\ UNCHANGED <<timeVars, cb>>
       ELSE
            LET t == timeEventHead[IndexOf(timeEventHead, te.id, 1)]
            IN  IF Skipped(t) \/ ~Ripe(t) THEN
                     /\ te' = NextPtr(timeEventHead, te.id)
                     /\ UNCHANGED <<timeVars, cb, maxId, callVars, fired,
                                    numevents, j, ret, hist>>
                ELSE
                     /\ pc' = "timeProc"
                     /\ cb' = [proc |-> t.timeProc, arg |-> t.id,
                               clientData |-> t.clientData, mask |-> 0, calls |-> 0]
                     /\ hist' = [hist EXCEPT !.invoked = @ \cup {t.id}]
                     /\ UNCHANGED <<timeVars, passVars, flags, processed, tvp,
                                    fired, numevents, j, ret>>
    /\ UNCHANGED <<fileVars, cur, fe, mainVars, listVars, clock>>

\* the write of the new fire time through te (ae.c 549): te may point to a
\* record that was freed, or to another timer's record that reuses it
Rescheduled(list, ptr, when) ==
    IF ptr.kind = "node"
    THEN [i \in 1..Len(list) |->
             IF list[i].id = ptr.id
             THEN [list[i] EXCEPT !.when_sec = when.sec, !.when_ms = when.ms]
             ELSE list[i]]
    ELSE list

\* the fire times replaced so far, after the write of ae.c 549 through ptr
\* in the pass of the timer self: the write gives self its new fire time, and
\* replaces that of another timer whose record ptr has come to point to
Overwritten(due, list, ptr, self) ==
    IF ptr.kind # "node" THEN due
    ELSE IF ptr.id = self THEN Undue(due, self)
    ELSE IF \E d \in due : d.id = ptr.id THEN due
    ELSE LET t == list[IndexOf(list, ptr.id, 1)]
         IN  due \cup {[id |-> t.id, sec |-> t.when_sec, ms |-> t.when_ms]}

\* the time callback returns retval: processed++, the timer is rescheduled
\* or deleted, and the scan restarts from the head (ae.c 525-555)
TimeProcReturn(retval) ==
    /\ pc = "timeProc"
    /\ processed' = Inc(processed)
    /\ IF retval # AE_NOMORE THEN
            /\ timeEventHead' =
                   Rescheduled(timeEventHead, te, aeAddMillisecondsToNow(retval))
            /\ hist' = [hist EXCEPT
                   !.uaf = @ \/ te.kind = "freed",
                   !.due = Overwritten(@, timeEventHead, te, cb.arg)]
       ELSE
            /\ timeEventHead' = DeletedList(timeEventHead, cb.arg)
            /\ hist' = [hist EXCEPT
                   !.finLog = FinalizedLog(@, timeEventHead, cb.arg),
                   !.deleted = IF cb.arg \in Ids(timeEventHead)
                               THEN @ \cup {cb.arg} ELSE @,
                   !.done = @ \cup {cb.arg},
                   !.due = Undue(@, cb.arg)]
    /\ te' = HeadPtr(timeEventHead')
    /\ pc' = "timeLoop"
    /\ cb' = NoCb
    /\ UNCHANGED <<fileVars, dispVars, timeEventNextId, lastTime, mainVars, listVars, maxId,
                   flags, tvp, ret, clock>>

(* --------------------------------- aeMain ------------------------------ *)

aeStop ==
    /\ CanCall
    /\ cb' = Called
    /\ stop' = 1
    /\ UNCHANGED <<fileVars, dispVars, timeVars, beforesleep, main, passVars,
                   callVars, ret, clock, hist, listVars>>

aeSetBeforeSleepProc(proc) ==
    /\ CanCall
    /\ cb' = Called
    /\ beforesleep' = proc
    /\ UNCHANGED <<fileVars, dispVars, timeVars, stop, main, passVars,
                   callVars, ret, clock, hist, listVars>>

\* aeMain is entered: eventLoop->stop = 0
aeMain ==
    /\ pc = "idle"
    /\ main = "out"
    /\ main' = "in"
    /\ stop' = 0
    /\ pc' = "mainTest"
    /\ UNCHANGED <<fileVars, dispVars, timeVars, beforesleep, passVars, flags,
                   processed, tvp, cb, ret, clock, hist, listVars>>

\* the test of the loop never sees the flag
KeepsRunning_Always == TRUE

\* while (!eventLoop->stop)
KeepsRunning == stop = 0

\* the test of aeMain's loop, then the return of aeMain, the call of the
\* before-sleep hook, or the call of aeProcessEvents
MainTest ==
    /\ pc = "mainTest"
    /\ IF ~KeepsRunning THEN
            /\ main' = "out"
            /\ pc' = "idle"
            /\ UNCHANGED <<fileVars, dispVars, timeVars, stop, beforesleep,
                           passVars, flags, processed, tvp, cb, ret, clock, hist, listVars>>
       ELSE IF beforesleep # NULL THEN
            /\ pc' = "beforesleep"
            /\ cb' = [NoCb EXCEPT !.proc = beforesleep]
            /\ UNCHANGED <<fileVars, dispVars, timeVars, mainVars, listVars, passVars,
                           flags, processed, tvp, ret, clock, hist>>
       ELSE \E polled \in aeApiPoll :
            /\ BeginProcessEvents(AE_ALL_EVENTS, polled)
            /\ UNCHANGED <<cb, mainVars, listVars>>

\* the before-sleep hook returns: aeProcessEvents(eventLoop, AE_ALL_EVENTS)
BeforeSleepReturn ==
    /\ pc = "beforesleep"
    /\ cb' = NoCb
    /\ \E polled \in aeApiPoll : BeginProcessEvents(AE_ALL_EVENTS, polled)
    /\ UNCHANGED <<mainVars, listVars>>

(* --------------------------------- adlist ------------------------------ *)

\* the addresses zmalloc can hand out
FreeAddrs == {a \in Addrs : ~nodes[a].live}
LiveAddrs == {a \in Addrs : nodes[a].live}

NewNode(prev, next, value) ==
    [live |-> TRUE, prev |-> prev, next |-> next, value |-> value]

listSetFreeMethod(m) ==
    /\ adlist' = [adlist EXCEPT !.free = m]
    /\ UNCHANGED <<nodes, lret, freed, iterVars, aeVars>>

listAddNodeHead(value) ==
    /\ \/ \* zmalloc fails
          /\ lret' = NULL
          /\ UNCHANGED <<adlist, nodes>>
       \/ \E node \in FreeAddrs :
          /\ IF adlist.len = 0 THEN
                  /\ adlist' = [adlist EXCEPT !.head = node, !.tail = node, !.len = @ + 1]
                  /\ nodes' = [nodes EXCEPT ![node] = NewNode(NullNode, NullNode, value)]
             ELSE
                  /\ nodes' = [nodes EXCEPT
                                  ![node] = NewNode(NullNode, adlist.head, value),
                                  ![adlist.head].prev = node]
                  /\ adlist' = [adlist EXCEPT !.head = node, !.len = @ + 1]
          /\ lret' = "list"
    /\ UNCHANGED <<freed, iterVars, aeVars>>

\* the new node is put at the head
listAddNodeTail_AtHead(value) == listAddNodeHead(value)

listAddNodeTail(value) ==
    /\ \/ \* zmalloc fails
          /\ lret' = NULL
          /\ UNCHANGED <<adlist, nodes>>
       \/ \E node \in FreeAddrs :
          /\ IF adlist.len = 0 THEN
                  /\ adlist' = [adlist EXCEPT !.head = node, !.tail = node, !.len = @ + 1]
                  /\ nodes' = [nodes EXCEPT ![node] = NewNode(NullNode, NullNode, value)]
             ELSE
                  /\ nodes' = [nodes EXCEPT
                                  ![node] = NewNode(adlist.tail, NullNode, value),
                                  ![adlist.tail].next = node]
                  /\ adlist' = [adlist EXCEPT !.tail = node, !.len = @ + 1]
          /\ lret' = "list"
    /\ UNCHANGED <<freed, iterVars, aeVars>>

\* only the node before the new node is made to point to it
LinkedIn_NoBack(mem, node) ==
    LET p == mem[node].prev
    IN  IF p # NullNode THEN [mem EXCEPT ![p].next = node] ELSE mem

\* if (node->prev != NULL) node->prev->next = node;
\* if (node->next != NULL) node->next->prev = node
LinkedIn(mem, node) ==
    LET p == mem[node].prev
        n == mem[node].next
        m1 == IF p # NullNode THEN [mem EXCEPT ![p].next = node] ELSE mem
    IN  IF n # NullNode THEN [m1 EXCEPT ![n].prev = node] ELSE m1

\* old_node is a node of the list
listInsertNode(old_node, value, after) ==
    /\ old_node \in LiveAddrs
    /\ \/ \* zmalloc fails
          /\ lret' = NULL
          /\ UNCHANGED <<adlist, nodes>>
       \/ \E node \in FreeAddrs :
          /\ IF after # 0 THEN
                  /\ nodes' = LinkedIn([nodes EXCEPT ![node] =
                                  NewNode(old_node, nodes[old_node].next, value)], node)
                  /\ adlist' = [adlist EXCEPT
                                 !.tail = IF @ = old_node THEN node ELSE @,
                                 !.len = @ + 1]
             ELSE
                  /\ nodes' = LinkedIn([nodes EXCEPT ![node] =
                                  NewNode(nodes[old_node].prev, old_node, value)], node)
                  /\ adlist' = [adlist EXCEPT
                                 !.head = IF @ = old_node THEN node ELSE @,
                                 !.len = @ + 1]
          /\ lret' = "list"
    /\ UNCHANGED <<freed, iterVars, aeVars>>

\* node is a node of the list
listDelNode(node) ==
    /\ node \in LiveAddrs
    /\ LET p == nodes[node].prev
           n == nodes[node].next
           m1 == IF p # NullNode THEN [nodes EXCEPT ![p].next = n] ELSE nodes
           m2 == IF n # NullNode THEN [m1 EXCEPT ![n].prev = p] ELSE m1
       IN  /\ nodes' = [m2 EXCEPT ![node] = FreeNode]
           /\ adlist' = [adlist EXCEPT
                          !.head = IF p # NullNode THEN @ ELSE n,
                          !.tail = IF n # NullNode THEN @ ELSE p,
                          !.len = @ - 1]
    /\ freed' = IF adlist.free # NULL THEN freed \cup {nodes[node].value} ELSE freed
    /\ UNCHANGED <<lret, iterVars, aeVars>>

\* the former tail is moved to the head, and the node before it still points
\* to it
listRotate_NoDetach ==
    /\ IF adlist.len <= 1 THEN UNCHANGED <<adlist, nodes>>
       ELSE LET tail == adlist.tail
                m2 == [nodes EXCEPT ![adlist.head].prev = tail]
            IN  /\ nodes' = [m2 EXCEPT ![tail].prev = NullNode,
                                       ![tail].next = adlist.head]
                /\ adlist' = [adlist EXCEPT !.head = tail, !.tail = nodes[tail].prev]
    /\ UNCHANGED <<lret, freed, iterVars, aeVars>>

listRotate ==
    /\ IF adlist.len <= 1 THEN UNCHANGED <<adlist, nodes>>
       ELSE LET tail == adlist.tail
                newtail == nodes[tail].prev
                m1 == [nodes EXCEPT ![newtail].next = NullNode]
                m2 == [m1 EXCEPT ![adlist.head].prev = tail]
            IN  /\ nodes' = [m2 EXCEPT ![tail].prev = NullNode,
                                       ![tail].next = adlist.head]
                /\ adlist' = [adlist EXCEPT !.head = tail, !.tail = newtail]
    /\ UNCHANGED <<lret, freed, iterVars, aeVars>>

\* the nodes met from node n by following next, or prev, as a sequence, cut
\* off after fuel nodes
RECURSIVE SeqNext(_, _, _)
SeqNext(mem, n, fuel) ==
    IF n = NullNode \/ fuel = 0 THEN <<>>
    ELSE <<n>> \o SeqNext(mem, mem[n].next, fuel - 1)

RECURSIVE SeqPrev(_, _, _)
SeqPrev(mem, n, fuel) ==
    IF n = NullNode \/ fuel = 0 THEN <<>>
    ELSE <<n>> \o SeqPrev(mem, mem[n].prev, fuel - 1)

\* listGetIterator; listRewind and listRewindTail set the same two fields
\* of an iterator that exists
listGetIterator(direction) ==
    /\ \/ \* zmalloc fails
          /\ iter' = NoIter
          /\ lhist' = NoIteration
       \/ /\ iter' = [live |-> TRUE,
                      next |-> IF direction = AL_START_HEAD
                               THEN adlist.head ELSE adlist.tail,
                      direction |-> direction]
          /\ lhist' = [start |-> IF direction = AL_START_HEAD
                                 THEN SeqNext(nodes, adlist.head, MaxNodes)
                                 ELSE SeqPrev(nodes, adlist.tail, MaxNodes),
                       visited |-> <<>>,
                       uaf |-> FALSE]
    /\ nret' = NullNode
    /\ UNCHANGED <<adlist, nodes, lret, freed, copy, aeVars>>

listReleaseIterator ==
    /\ iter.live
    /\ iter' = NoIter
    /\ UNCHANGED <<adlist, nodes, lret, freed, nret, copy, lhist, aeVars>>

\* the iterator is left on the node it returns
Advance_Stay(it, current) == it

\* iter->next = current->next, or current->prev
Advance(it, current) ==
    [it EXCEPT !.next = IF it.direction = AL_START_HEAD
                        THEN nodes[current].next ELSE nodes[current].prev]

\* listNext; the fields of a released node hold any pointer
listNext ==
    /\ iter.live
    /\ LET current == iter.next
       IN  /\ nret' = current
           /\ IF current = NullNode THEN UNCHANGED <<iter, lhist>>
              ELSE IF ~nodes[current].live THEN
                   /\ \E a \in Addrs \cup {NullNode} : iter' = [iter EXCEPT !.next = a]
                   /\ lhist' = [lhist EXCEPT !.uaf = TRUE]
              ELSE /\ iter' = Advance(iter, current)
                   /\ lhist' = [lhist EXCEPT !.visited = Append(@, current)]
    /\ UNCHANGED <<adlist, nodes, lret, freed, copy, aeVars>>

\* a long of LongBits bits: its least value, and a value brought back into
\* its range as two's complement arithmetic does
LongMin == -(2 ^ (LongBits - 1))
WrapLong(x) == ((x - LongMin) % (2 ^ LongBits)) + LongMin

\* while(index-- && n) n = n->prev, or n = n->next
RECURSIVE Walk(_, _, _)
Walk(n, index, direction) ==
    IF index = 0 \/ n = NullNode THEN n
    ELSE Walk(IF direction = AL_START_HEAD THEN nodes[n].next ELSE nodes[n].prev,
              WrapLong(index - 1), direction)

\* a negative index is negated and not brought down by one
listIndexNode_NoAdjust(index) ==
    IF index < 0
    THEN Walk(adlist.tail, WrapLong(-index), AL_START_TAIL)
    ELSE Walk(adlist.head, index, AL_START_HEAD)

\* the node listIndex returns
listIndexNode(index) ==
    IF index < 0
    THEN Walk(adlist.tail, WrapLong(WrapLong(-index) - 1), AL_START_TAIL)
    ELSE Walk(adlist.head, index, AL_START_HEAD)

listIndex(index) ==
    /\ nret' = listIndexNode(index)
    /\ UNCHANGED <<adlist, nodes, lret, freed, iter, copy, lhist, aeVars>>

listSetDupMethod(m) ==
    /\ adlist' = [adlist EXCEPT !.dup = m]
    /\ UNCHANGED <<nodes, lret, freed, iterVars, aeVars>>

\* the copy the dup method makes of a value: another pointer
DupOf(value) == IF value = "a" THEN "a2" ELSE IF value = "b" THEN "b2" ELSE value

\* memory mem with the nodes at addrs allocated and linked in that order,
\* holding the values vals
Linked(mem, addrs, vals) ==
    [a \in Addrs |->
        IF \E i \in DOMAIN addrs : addrs[i] = a
        THEN LET i == CHOOSE i \in DOMAIN addrs : addrs[i] = a
             IN  NewNode(IF i = 1 THEN NullNode ELSE addrs[i - 1],
                         IF i = Len(addrs) THEN NullNode ELSE addrs[i + 1],
                         vals[i])
        ELSE mem[a]]

\* listDup of the list: listCreate, the three methods, an iterator from the
\* head, and listAddNodeTail of every value or of its copy; listRelease of
\* the copy when a value cannot be copied or a node cannot be allocated
listDup ==
    /\ LET src == SeqNext(nodes, adlist.head, MaxNodes)
           vals == [i \in DOMAIN src |->
                       IF adlist.dup # NULL THEN DupOf(nodes[src[i]].value)
                       ELSE nodes[src[i]].value]
       IN  \/ \* listCreate fails
              /\ lret' = NULL
              /\ UNCHANGED <<nodes, freed, copy>>
           \/ \* listGetIterator returns NULL and listNext reads through it
              /\ lret' = "crash"
              /\ UNCHANGED <<nodes, freed, copy>>
           \/ \* the dup method or listAddNodeTail fails after k nodes
              \E k \in 0..(Len(src) - 1) :
                 /\ k <= Cardinality(FreeAddrs)
                 /\ lret' = NULL
                 /\ freed' = IF adlist.free # NULL
                             THEN freed \cup {vals[i] : i \in 1..k} ELSE freed
                 /\ UNCHANGED <<nodes, copy>>
           \/ \E addrs \in [DOMAIN src -> FreeAddrs] :
                 /\ \A x, y \in DOMAIN src : x # y => addrs[x] # addrs[y]
                 /\ nodes' = Linked(nodes, addrs, vals)
                 /\ copy' = [head |-> IF Len(src) = 0 THEN NullNode ELSE addrs[1],
                             tail |-> IF Len(src) = 0 THEN NullNode ELSE addrs[Len(src)],
                             len |-> Len(src),
                             dup |-> adlist.dup, free |-> adlist.free,
                             match |-> adlist.match]
                 /\ lret' = "copy"
                 /\ UNCHANGED freed
    /\ UNCHANGED <<adlist, iter, nret, lhist, aeVars>>

\* listRelease of the copy
listRelease ==
    /\ LET own == SeqNext(nodes, copy.head, MaxNodes)
       IN  /\ nodes' = [a \in Addrs |->
                          IF \E i \in DOMAIN own : own[i] = a THEN FreeNode
                          ELSE nodes[a]]
           /\ freed' = IF copy.free # NULL
                       THEN freed \cup {nodes[own[i]].value : i \in DOMAIN own}
                       ELSE freed
    /\ copy' = EmptyList
    /\ UNCHANGED <<adlist, lret, iter, nret, lhist, aeVars>>

(* ---------------------------- specifications --------------------------- *)

\* the descriptors the application names: one is past every setsize
Fds == 0..MaxSetSize
\* the sizes handed to aeResizeSetSize
SetSizes == 0..MaxSetSize
\* the delays and reschedule values, in milliseconds
Delays == {0, TickMs, MsPerSec + TickMs}
Finalizers == {NULL, "fin"}

FileCalls(fds, procs) ==
    \/ \E fd \in fds, mask \in FileMasks, proc \in procs :
           aeCreateFileEvent(fd, mask, proc, "d1")
    \/ \E fd \in fds, mask \in DelMasks : aeDeleteFileEvent(fd, mask)
    \/ \E n \in SetSizes : aeResizeSetSize(n)

FileTick ==
    \/ \E polled \in aeApiPoll : aeProcessEvents(AE_FILE_EVENTS, polled)
    \/ FileDispatch
    \/ RFileProcReturn
    \/ WFileProcReturn
    \/ FileLoopEnd
    \/ TimeCheck

\* the table of file events: registration, resizing and dispatch, with one
\* function registered for every direction
NextFile == FileCalls(Fds, {"f"}) \/ FileTick

SpecFile == Init /\ [][NextFile]_vars

\* the dispatch of file events with two functions to tell apart, on the
\* descriptors that fit the largest table
NextDispatch == FileCalls(0..(MaxSetSize - 1), Procs) \/ FileTick

SpecDispatch == Init /\ [][NextDispatch]_vars

TimeTick(retvals) ==
    \/ \E fl \in {AE_TIME_EVENTS, AE_TIME_EVENTS + AE_DONT_WAIT} :
           aeProcessEvents(fl, <<>>)
    \/ FileLoopEnd
    \/ TimeCheck
    \/ TimeLoopStep
    \/ \E retval \in retvals : TimeProcReturn(retval)

\* the firing of time events on a loop without descriptors, the clock moving
\* in whole seconds, forwards and backwards
NextTime ==
    \/ \E ms \in {0, MsPerSec} : aeCreateTimeEvent(ms, "tproc", "d1", NULL)
    \/ \E id \in 0..MaxTimers : aeDeleteTimeEvent(id)
    \/ TimeTick({AE_NOMORE, 0, MsPerSec})
    \/ Tick(MsPerSec)
    \/ \E sec \in 1..MaxSec : ClockBack(sec, 0)

SpecTime == Init /\ [][NextTime]_vars

\* the list of time events with its finalizers and client data, every timer
\* ripe as soon as it is created
NextTimerList ==
    \/ \E cd \in ClientDatas, fin \in Finalizers :
           aeCreateTimeEvent(0, "tproc", cd, fin)
    \/ \E id \in 0..MaxTimers : aeDeleteTimeEvent(id)
    \/ TimeTick({AE_NOMORE, 0})

SpecTimerList == Init /\ [][NextTimerList]_vars

\* the fire time of one timer at a time, the clock moving in half seconds
NextWhen ==
    \/ \E ms \in Delays, fin \in Finalizers :
           timeEventHead = <<>> /\ aeCreateTimeEvent(ms, "tproc", "d1", fin)
    \/ \E id \in 0..MaxTimers : aeDeleteTimeEvent(id)
    \/ TimeTick({AE_NOMORE} \cup Delays)
    \/ Tick(TickMs)

SpecWhen == Init /\ [][NextWhen]_vars

(* ------------------------- the table of file events -------------------- *)

\* the largest registered descriptor of a table, -1 when none is registered
MaxRegistered(ev) ==
    LET reg == {fd \in DOMAIN ev : ev[fd].mask # AE_NONE}
    IN  IF reg = {} THEN -1 ELSE CHOOSE m \in reg : \A fd \in reg : fd <= m

\* C1: after any sequence of add-file, del-file and resize-setsize calls,
\* made between ticks or from callbacks, maxfd is below setsize, the table
\* has setsize slots, every slot with a mask other than NONE has a
\* descriptor at most maxfd, and every slot above maxfd has the mask NONE.
C1_TableBounds ==
    /\ maxfd < setsize
    /\ DOMAIN events = 0..(setsize - 1)
    /\ \A fd \in DOMAIN events : events[fd].mask # AE_NONE => fd <= maxfd
    /\ \A fd \in DOMAIN events : fd > maxfd => events[fd].mask = AE_NONE

\* C1: a callback has shrunk the table to the tightest size that keeps the
\* registered descriptor 0, after descriptor 1 was registered and removed.
C1_Witness ==
    /\ pc \in CallbackPcs
    /\ cb.calls > 0
    /\ setsize = 1
    /\ maxfd = 0
    /\ events[0].mask # AE_NONE
    /\ events[0].rfileProc # Uninit

\* C2: a del-file call that names every direction a registered slot has
\* leaves that slot with the mask NONE, and maxfd equal to the largest
\* descriptor that is still registered, or -1 when none is.
C2_LastDirectionRemoved ==
    [][\A fd \in Fds, mask \in DelMasks :
          (/\ aeDeleteFileEvent(fd, mask)
           /\ fd < setsize
           /\ events[fd].mask # AE_NONE
           /\ BitClear(events[fd].mask, mask) = AE_NONE)
          => /\ events'[fd].mask = AE_NONE
             /\ maxfd' = MaxRegistered(events')]_vars

\* C2: descriptor 1 was registered and has lost its last direction, and maxfd
\* has come down to descriptor 0, which is still registered.
C2_Witness ==
    /\ setsize > 1
    /\ events[1].mask = AE_NONE
    /\ events[1].rfileProc # Uninit
    /\ maxfd = 0
    /\ events[0].mask # AE_NONE

\* C3: whenever the loop invokes a callback for a fired entry, the slot's
\* mask and the fired mask both contain the direction of that callback at the
\* moment of the invocation.
C3_InvokedOnlyIfSubscribed ==
    /\ (pc = "rfileProc" /\ cb.calls = 0)
       => /\ cur.fd < setsize
          /\ Has(events[cur.fd].mask, AE_READABLE)
          /\ Has(cur.mask, AE_READABLE)
    /\ (pc = "wfileProc" /\ cb.calls = 0)
       => /\ cur.fd < setsize
          /\ Has(events[cur.fd].mask, AE_WRITABLE)
          /\ Has(cur.mask, AE_WRITABLE)

\* the slot of descriptor fd and the fired mask both contain both directions
BothDirections(fd, mask) ==
    /\ fd < setsize
    /\ events[fd].mask = AE_READABLE + AE_WRITABLE
    /\ mask = AE_READABLE + AE_WRITABLE

\* of the slot of descriptor fd and the fired mask only WRITABLE survives
OnlyWritable(fd, mask) ==
    /\ fd < setsize
    /\ Has(BitAnd(events[fd].mask, mask), AE_WRITABLE)
    /\ ~Has(BitAnd(events[fd].mask, mask), AE_READABLE)

\* C4: for a fired entry whose slot mask and fired mask both contain READABLE
\* and WRITABLE the read callback is invoked first, with the fired mask; when
\* it has returned and both masks still contain both directions, the slot's
\* write callback is invoked next if it is another function than the slot's
\* read callback, and nothing more is invoked for the entry if it is the same
\* function. For an entry of which only WRITABLE survives the write callback
\* is invoked, be it the same function as the read callback or not.
C4_ReadThenWrite ==
    [][/\ (/\ pc = "fileLoop"
           /\ j < numevents
           /\ BothDirections(fired[j + 1].fd, fired[j + 1].mask))
          => /\ pc' = "rfileProc"
             /\ cb'.proc = events[fired[j + 1].fd].rfileProc
             /\ cb'.mask = fired[j + 1].mask
       /\ (/\ pc = "rfileProc"
           /\ pc' # "rfileProc"
           /\ BothDirections(cur.fd, cur.mask))
          => IF events[cur.fd].wfileProc = events[cur.fd].rfileProc
             THEN pc' = "fileLoop"
             ELSE /\ pc' = "wfileProc"
                  /\ cb'.proc = events[cur.fd].wfileProc
                  /\ cb'.mask = cur.mask
       /\ (/\ pc = "fileLoop"
           /\ j < numevents
           /\ OnlyWritable(fired[j + 1].fd, fired[j + 1].mask))
          => /\ pc' = "wfileProc"
             /\ cb'.proc = events[fired[j + 1].fd].wfileProc]_vars

(* ------------------------------ time events ---------------------------- *)

\* C5: a timer created by a callback during a firing pass has no callback
\* invoked in that pass, whatever its delay.
C5_NewTimerWaits ==
    pc = "timeProc" => cb.arg \notin hist.created

\* C5: the pass, restarted after a callback, stands on a timer that this pass
\* created and that is already due.
C5_Witness ==
    /\ pc = "timeLoop"
    /\ te.kind = "node"
    /\ te.id \in hist.created
    /\ hist.invoked # {}
    /\ Ripe(timeEventHead[IndexOf(timeEventHead, te.id, 1)])

\* C6: when the wall clock was set backwards between two ticks, every timer
\* pending at the start of the next firing pass has its callback invoked
\* during that pass.
C6_ClockSetBack ==
    (pc = "timeLoop" /\ te.kind = "null" /\ hist.backAtStart)
    => hist.atStart \subseteq hist.invoked

\* C6 as amended: when a firing pass starts with the second of the wall clock
\* below lastTime, every timer pending at its start and not deleted during
\* the pass has had its callback invoked when the scan of the pass ends.
C6_SkewFiresPending ==
    (pc = "timeLoop" /\ te.kind = "null" /\ hist.skew)
    => (hist.atStart \ hist.deleted) \subseteq hist.invoked

\* C6: a pass that saw the clock behind lastTime ends with two timers
\* invoked that were pending at its start, one of them still pending.
C6_Witness ==
    /\ pc = "timeLoop"
    /\ te.kind = "null"
    /\ hist.skew
    /\ Cardinality(hist.atStart) = MaxTimers
    /\ hist.atStart \subseteq hist.invoked
    /\ Ids(timeEventHead) \cap hist.atStart # {}

\* C9: the identifiers returned by the successful add-timer calls of a loop
\* are 0, 1, 2, ... in call order.
C9_DenseIds ==
    \A i \in 1..Len(hist.issued) : hist.issued[i] = i - 1

\* the list without the node of identifier id, the others in their order
WithoutId(list, id) ==
    LET Other(n) == n.id # id IN SelectSeq(list, Other)

PassSteps ==
    \/ TimeLoopStep
    \/ \E retval \in {AE_NOMORE, 0} : TimeProcReturn(retval)

\* the list of time events, a firing pass that has begun being carried on
SpecTimerListFair == SpecTimerList /\ WF_vars(PassSteps)

\* C7: every firing pass terminates: a pass that has begun returns, whatever
\* its callbacks return, create and delete.
C7_PassReturns == (pc = "timeLoop") ~> (pc = "idle")

\* C8: when the callback of a timer returns NO-MORE the timer is off the
\* list, its finalizer, if it has one, has been invoked with its client data,
\* and its callback is never invoked again; when the callback returns r >= 0
\* the timer is pending under the same identifier and its fire time is the
\* wall time of the return plus r milliseconds.
C8_ReturnValue ==
    /\ [](pc = "timeProc" => cb.arg \notin hist.done)
    /\ [][\A retval \in {AE_NOMORE} \cup Delays :
             TimeProcReturn(retval)
             => IF retval = AE_NOMORE
                THEN /\ cb.arg \notin Ids(timeEventHead')
                     /\ hist'.finLog =
                            FinalizedLog(hist.finLog, timeEventHead, cb.arg)
                ELSE \E i \in DOMAIN timeEventHead' :
                        /\ timeEventHead'[i].id = cb.arg
                        /\ [sec |-> timeEventHead'[i].when_sec,
                            ms |-> timeEventHead'[i].when_ms]
                           = Normalize(clock.sec * MsPerSec + clock.ms + retval)]_vars

(* -------------------- the table of file events, call by call ------------ *)

\* registration and removal on a table of fixed size, called between ticks
\* with either function and either client data
NextAdd ==
    \/ \E fd \in Fds, mask \in FileMasks, proc \in Procs, cd \in ClientDatas :
           pc = "idle" /\ aeCreateFileEvent(fd, mask, proc, cd)
    \/ \E fd \in Fds, mask \in DelMasks :
           pc = "idle" /\ aeDeleteFileEvent(fd, mask)

SpecAdd == Init /\ [][NextAdd]_vars

\* C11: a successful add-file(fd, mask, proc) leaves the slot subscribed in
\* exactly the directions it had before and the directions of mask, installs
\* proc for the directions of mask and leaves the callback of every other
\* direction as it was; no other slot changes. So add-file(fd, READABLE, f)
\* and add-file(fd, WRITABLE, g), in either order, leave the slot with the
\* mask READABLE|WRITABLE, the read callback f and the write callback g.
C11_AddIsAdditive ==
    [][\A fd \in Fds, mask \in FileMasks, proc \in Procs, cd \in ClientDatas :
          (aeCreateFileEvent(fd, mask, proc, cd) /\ ret' = AE_OK)
          => /\ fd < setsize
             /\ \A d \in {AE_READABLE, AE_WRITABLE} :
                   Has(events'[fd].mask, d)
                   <=> (Has(events[fd].mask, d) \/ Has(mask, d))
             /\ events'[fd].mask \in GarbageMasks
             /\ events'[fd].rfileProc =
                    IF Has(mask, AE_READABLE) THEN proc ELSE events[fd].rfileProc
             /\ events'[fd].wfileProc =
                    IF Has(mask, AE_WRITABLE) THEN proc ELSE events[fd].wfileProc
             /\ \A other \in DOMAIN events :
                   other # fd => events'[other] = events[other]]_vars

\* C11: descriptor 0 is subscribed in both directions, the read callback is
\* f and the write callback is g: two adds with one direction each were made.
C11_Witness ==
    /\ events[0].mask = AE_READABLE + AE_WRITABLE
    /\ events[0].rfileProc = "f"
    /\ events[0].wfileProc = "g"

\* C12: add-file with fd >= setsize returns ERR, and an add-file that
\* returns ERR, for that reason or because the backend refused, leaves
\* setsize, maxfd and every slot (mask, callbacks, client data) as they were.
C12_FailedAddChangesNothing ==
    [][\A fd \in Fds, mask \in FileMasks, proc \in Procs, cd \in ClientDatas :
          aeCreateFileEvent(fd, mask, proc, cd)
          => /\ fd >= setsize => ret' = AE_ERR
             /\ ret' = AE_ERR
                => /\ events' = events
                   /\ maxfd' = maxfd
                   /\ setsize' = setsize]_vars

\* C12: an add-file has failed after descriptor 0 was registered, and
\* descriptor 1, never registered, still has the mask NONE.
C12_Witness ==
    /\ ret = AE_ERR
    /\ maxfd = 0
    /\ events[0].mask # AE_NONE
    /\ events[1].mask = AE_NONE
    /\ events[1].rfileProc = Uninit
    /\ events[1].wfileProc = Uninit

\* registration, removal and resizing of the table, called between ticks
NextTable ==
    \/ NextAdd
    \/ \E n \in SetSizes : pc = "idle" /\ aeResizeSetSize(n)

SpecTable == Init /\ [][NextTable]_vars

PassSteps_Main(retvals) ==
    \/ FileDispatch
    \/ RFileProcReturn
    \/ WFileProcReturn
    \/ FileLoopEnd
    \/ TimeCheck
    \/ TimeLoopStep
    \/ \E retval \in retvals : TimeProcReturn(retval)

\* one descriptor and timers registered between runs, an optional
\* before-sleep hook, and aeStop called before a run, from the hook or from
\* a callback
NextMain ==
    \/ \E mask \in FileMasks :
           pc = "idle" /\ aeCreateFileEvent(0, mask, "f", "d1")
    \/ pc = "idle" /\ aeCreateTimeEvent(0, "tproc", "d1", NULL)
    \/ \E proc \in {NULL, "hook"} : pc = "idle" /\ aeSetBeforeSleepProc(proc)
    \/ aeStop
    \/ aeMain
    \/ MainTest
    \/ BeforeSleepReturn
    \/ PassSteps_Main({AE_NOMORE, MsPerSec})
    \/ Tick(MsPerSec)

SpecMain == Init /\ [][NextMain]_vars

\* the call of aeProcessEvents(eventLoop, AE_ALL_EVENTS) has been made
ProcessEventsEntered ==
    /\ flags' = AE_ALL_EVENTS
    /\ pc' \in {"fileLoop", "timeCheck"}

\* C14: run clears the stop flag on entry and then repeats, while the flag
\* is unset, the before-sleep hook if one is installed followed by
\* process-events with the flags ALL; once stop has been called during an
\* iteration the flag stays set, the rest of that iteration runs on, and at
\* the next test of the flag run returns, which is the only way it returns,
\* without invoking the hook or process-events again.
C14_RunUntilStopped ==
    [][/\ (main = "out" /\ main' = "in") => (stop' = 0 /\ pc' = "mainTest")
       /\ MainTest =>
             IF stop # 0 THEN main' = "out" /\ pc' = "idle"
             ELSE IF beforesleep # NULL
                  THEN pc' = "beforesleep" /\ cb'.proc = beforesleep
                  ELSE ProcessEventsEntered
       /\ (pc = "beforesleep" /\ pc' # "beforesleep") => ProcessEventsEntered
       /\ (main = "in" /\ stop # 0) => stop' # 0
       /\ (main = "in" /\ pc # "mainTest")
             => /\ main' = "in"
                /\ pc' \in {"idle", "beforesleep"} => pc' = pc
       /\ (main = "in" /\ main' = "out") => (pc = "mainTest" /\ stop # 0)
      ]_vars

\* C14: the stop flag was set earlier in the iteration and a timer callback
\* of the same iteration is invoked all the same.
C14_Witness ==
    /\ main = "in"
    /\ stop = 1
    /\ pc = "timeProc"
    /\ cb.calls = 0
    /\ beforesleep # NULL


(* ---------------------- file events before time events ----------------- *)

\* descriptors and timers served by the same calls of aeProcessEvents,
\* registered between the calls and removed between the calls and from the
\* callbacks
NextBoth ==
    \/ \E fd \in 0..(MaxSetSize - 1), mask \in FileMasks :
           pc = "idle" /\ aeCreateFileEvent(fd, mask, "f", "d1")
    \/ \E fd \in 0..(MaxSetSize - 1) : aeDeleteFileEvent(fd, AE_READABLE)
    \/ pc = "idle" /\ aeCreateTimeEvent(0, "tproc", "d1", NULL)
    \/ \E fl \in {AE_ALL_EVENTS, AE_ALL_EVENTS + AE_DONT_WAIT} :
           \E polled \in aeApiPoll : aeProcessEvents(fl, polled)
    \/ PassSteps_Main({AE_NOMORE})

SpecBoth == Init /\ [][NextBoth]_vars

AllFlags == 0..(AE_ALL_EVENTS + AE_DONT_WAIT)

\* one descriptor, readable, and timers registered and removed between the
\* calls, the calls made with every combination of flags, the clock moving
\* in half seconds
NextPoll ==
    \/ pc = "idle" /\ aeCreateFileEvent(0, AE_READABLE, "f", "d1")
    \/ pc = "idle" /\ aeDeleteFileEvent(0, AE_READABLE)
    \/ \E ms \in Delays : pc = "idle" /\ aeCreateTimeEvent(ms, "tproc", "d1", NULL)
    \/ \E fl \in AllFlags, polled \in aeApiPoll : aeProcessEvents(fl, polled)
    \/ FileDispatch
    \/ RFileProcReturn
    \/ FileLoopEnd
    \/ TimeCheck
    \/ TimeLoopStep
    \/ TimeProcReturn(AE_NOMORE)
    \/ Tick(TickMs)

SpecPoll == Init /\ [][NextPoll]_vars

\* the time events of the list that no other fires before
Earliest ==
    {i \in DOMAIN timeEventHead :
        \A k \in DOMAIN timeEventHead :
            \/ timeEventHead[i].when_sec < timeEventHead[k].when_sec
            \/ /\ timeEventHead[i].when_sec = timeEventHead[k].when_sec
               /\ timeEventHead[i].when_ms <= timeEventHead[k].when_ms}

\* a time in microseconds
Usec(sec, ms) == (sec * MsPerSec + ms) * UsecPerMs
UsecPerSec == MsPerSec * UsecPerMs

\* C16: in process-events the backend poll is entered exactly if a
\* descriptor is registered or TIME is requested without DONT-WAIT; its
\* timeout is the delta to a pending timer that no other fires before, which
\* is the difference of the two times when the timer is not overdue, if TIME
\* is requested without DONT-WAIT and a timer is pending; it is zero if
\* DONT-WAIT is set, and null otherwise.
C16_PollAndTimeout ==
    [][\A fl \in AllFlags, polled \in aeApiPoll :
          (aeProcessEvents(fl, polled) /\ ~NothingRequested(fl)) =>
             LET timed == Has(fl, AE_TIME_EVENTS) /\ ~Has(fl, AE_DONT_WAIT)
             IN  /\ (pc' = "fileLoop") <=> (maxfd # -1 \/ timed)
                 /\ pc' # "fileLoop" => (pc' = "timeCheck" /\ tvp' = NoTvp)
                 /\ pc' = "fileLoop" =>
                      IF timed /\ timeEventHead # <<>> THEN
                          \E i \in Earliest :
                             LET t == timeEventHead[i]
                                 left == Usec(t.when_sec, t.when_ms)
                                           - Usec(clock.sec, clock.ms)
                             IN  /\ tvp' = TimeoutTo(t)
                                 /\ left >= 0 =>
                                      tvp'.tv_sec * UsecPerSec + tvp'.tv_usec = left
                      ELSE IF Has(fl, AE_DONT_WAIT) THEN
                          tvp' = [kind |-> "tv", tv_sec |-> 0, tv_usec |-> 0]
                      ELSE tvp'.kind = "null"]_vars

\* C16: the poll has been entered without a registered descriptor, with the
\* delta to the second node of the list, which fires before the head.
C16_Witness ==
    /\ pc = "fileLoop"
    /\ maxfd = -1
    /\ Len(timeEventHead) = 2
    /\ Earliest = {2}
    /\ tvp = TimeoutTo(timeEventHead[2])
    /\ tvp.tv_usec > 0

\* C17: the timeout derived from a timer is never negative in either field
\* and its microsecond field is below 1,000,000, and it is exactly zero
\* whenever the fire time of the nearest timer is not after the current time.
C17_ClampedDelta ==
    [][\A fl \in AllFlags, polled \in aeApiPoll :
          (/\ aeProcessEvents(fl, polled)
           /\ Has(fl, AE_TIME_EVENTS)
           /\ ~Has(fl, AE_DONT_WAIT)
           /\ timeEventHead # <<>>) =>
             LET t == timeEventHead[aeSearchNearestTimer]
                 left == Usec(t.when_sec, t.when_ms) - Usec(clock.sec, clock.ms)
             IN  /\ tvp'.kind = "tv"
                 /\ tvp'.tv_sec >= 0
                 /\ tvp'.tv_usec >= 0
                 /\ tvp'.tv_usec < UsecPerSec
                 /\ tvp'.tv_sec * UsecPerSec + tvp'.tv_usec
                       = IF left > 0 THEN left ELSE 0]_vars


(* ------------------------- calls that ask for nothing ------------------ *)

\* descriptors registered first, timers next, and aeProcessEvents called
\* with neither AE_FILE_EVENTS nor AE_TIME_EVENTS while the clock moves on
NextNone ==
    \/ \E fd \in Fds, mask \in FileMasks :
           timeEventHead = <<>> /\ aeCreateFileEvent(fd, mask, "f", "d1")
    \/ \E ms \in Delays, fin \in Finalizers :
           aeCreateTimeEvent(ms, "tproc", "d1", fin)
    \/ \E fl \in {0, AE_DONT_WAIT}, polled \in aeApiPoll :
           aeProcessEvents(fl, polled)
    \/ Tick(TickMs)

SpecNone == Init /\ [][NextNone]_vars

\* C18: process-events called with flags that contain neither FILE nor TIME
\* returns 0 at once: the backend is not polled, no callback or finalizer is
\* invoked, and the slots, maxfd, the timer list, lastTime and stop are as
\* they were.
C18_NothingRequested ==
    [][\A fl \in AllFlags, polled \in aeApiPoll :
          (/\ aeProcessEvents(fl, polled)
           /\ ~Has(fl, AE_FILE_EVENTS)
           /\ ~Has(fl, AE_TIME_EVENTS))
          => /\ ret' = 0
             /\ pc' = "idle"
             /\ UNCHANGED <<fileVars, dispVars, timeVars, mainVars, listVars, passVars,
                            flags, processed, tvp, cb, clock, hist>>]_vars

\* C18: the call has returned 0 on a loop with a registered descriptor and
\* two pending timers whose registration returned other values.
C18_Witness ==
    /\ pc = "idle"
    /\ ret = 0
    /\ maxfd # -1
    /\ Len(timeEventHead) = MaxTimers
    /\ hist.finLog = <<>>


(* ------------------------- add-timer out of memory --------------------- *)

\* C19: an add-timer call that fails to allocate the timer record returns
\* ERR and leaves the loop as it was: the timer list and timeEventNextId are
\* unchanged, so that the next successful call returns the identifier the
\* failed call would have returned.
C19_FailedAddTimer ==
    [][\A cd \in ClientDatas, fin \in Finalizers :
          (aeCreateTimeEvent(0, "tproc", cd, fin) /\ ret' = AE_ERR)
          => /\ timeEventHead' = timeEventHead
             /\ timeEventNextId' = timeEventNextId
             /\ UNCHANGED <<fileVars, lastTime, mainVars, listVars>>]_vars


(* ------------------------------- the list ------------------------------ *)

\* a list built and taken apart node by node, with and without a free method
NextList ==
    \/ \E m \in {NULL, "free"} : listSetFreeMethod(m)
    \/ \E value \in Values : listAddNodeHead(value)
    \/ \E value \in Values : listAddNodeTail(value)
    \/ \E old_node \in Addrs, value \in Values, after \in {0, 1} :
           listInsertNode(old_node, value, after)
    \/ \E node \in Addrs : listDelNode(node)
    \/ listRotate

SpecList == Init /\ [][NextList]_vars

\* the number of nodes met from node n by following next, or prev, cut off
\* after fuel nodes
RECURSIVE CountNext(_, _)
CountNext(n, fuel) ==
    IF n = NullNode \/ fuel = 0 THEN 0 ELSE 1 + CountNext(nodes[n].next, fuel - 1)

RECURSIVE CountPrev(_, _)
CountPrev(n, fuel) ==
    IF n = NullNode \/ fuel = 0 THEN 0 ELSE 1 + CountPrev(nodes[n].prev, fuel - 1)

\* the nodes met from node n by following next
RECURSIVE ReachNext(_, _)
ReachNext(n, fuel) ==
    IF n = NullNode \/ fuel = 0 THEN {} ELSE {n} \cup ReachNext(nodes[n].next, fuel - 1)

\* C20: after any sequence of push-head, push-tail, insert before or after
\* a node, delete-node and rotate, the length is 0 exactly if head is null
\* and exactly if tail is null; head has no predecessor and tail no
\* successor; the length is the number of nodes reached from head by next
\* and the number reached from tail by prev; and every node with a
\* successor is the predecessor of its successor.
C20_ListShape ==
    /\ (adlist.len = 0) <=> (adlist.head = NullNode)
    /\ (adlist.len = 0) <=> (adlist.tail = NullNode)
    /\ adlist.head # NullNode => nodes[adlist.head].prev = NullNode
    /\ adlist.tail # NullNode => nodes[adlist.tail].next = NullNode
    /\ adlist.len = CountNext(adlist.head, MaxNodes + 1)
    /\ adlist.len = CountPrev(adlist.tail, MaxNodes + 1)
    /\ \A n \in ReachNext(adlist.head, MaxNodes + 1) :
          /\ nodes[n].live
          /\ nodes[n].next # NullNode => nodes[nodes[n].next].prev = n

\* C20: a list of three nodes whose head was inserted after a node was
\* deleted: the addresses are not in the order of the list.
C20_Witness ==
    /\ adlist.len = 3
    /\ freed # {}
    /\ adlist.head > nodes[adlist.head].next
    /\ nodes[adlist.head].next < adlist.tail
    /\ lret = "list"


(* ------------------------- draining by iteration ----------------------- *)

\* no iteration is going on
NoDrain == ~iter.live

\* the caller holds no node: listNext has returned NULL, or the node it
\* returned has been deleted
NoneHeld == IF nret = NullNode THEN TRUE ELSE ~nodes[nret].live

\* a list is built, then an iterator of either direction is taken and every
\* node listNext returns is removed before listNext is called again; the
\* iterator is released once listNext has returned NULL
NextDrain ==
    \/ \E value \in Values : NoDrain /\ listAddNodeHead(value)
    \/ \E value \in Values : NoDrain /\ listAddNodeTail(value)
    \/ \E direction \in {AL_START_HEAD, AL_START_TAIL} :
           NoDrain /\ listGetIterator(direction)
    \/ NoneHeld /\ listNext
    \/ ~NoDrain /\ nret # NullNode /\ listDelNode(nret)
    \/ nret = NullNode /\ listReleaseIterator

SpecDrain == Init /\ [][NextDrain]_vars


\* C21: for either direction, while listNext is called and every node it
\* returns is deleted before the next call, the nodes returned are the nodes
\* the list had, each once and in the order of the direction; the iterator
\* never points to or reads a deleted node; and when as many nodes have been
\* returned and deleted as the list had, the list is empty and listNext
\* returns NULL, which it does not do before.
C21_DrainByIteration ==
    iter.live =>
        /\ ~lhist.uaf
        /\ iter.next # NullNode => nodes[iter.next].live
        /\ Len(lhist.visited) <= Len(lhist.start)
        /\ lhist.visited = SubSeq(lhist.start, 1, Len(lhist.visited))
        /\ iter.next = NullNode <=> Len(lhist.visited) = Len(lhist.start)
        /\ NoneHeld
              => /\ adlist.len = Len(lhist.start) - Len(lhist.visited)
                 /\ (adlist.len = 0) <=> (adlist.head = NullNode)
                 /\ (adlist.len = 0) <=> (adlist.tail = NullNode)

\* C21: a list of three nodes has been drained from the tail, and the call
\* of listNext after the third deletion has returned NULL.
C21_Witness ==
    /\ iter.live
    /\ iter.direction = AL_START_TAIL
    /\ Len(lhist.start) = 3
    /\ lhist.visited = lhist.start
    /\ lhist.start[1] < lhist.start[2]
    /\ nret = NullNode
    /\ adlist.len = 0
    /\ adlist.head = NullNode


(* --------------------------------- rotate ------------------------------ *)

\* a list is built, an iterator is taken at its head, which keeps the order
\* the list has at that moment, and the list is rotated
NextRotate ==
    \/ \E value \in Values : NoDrain /\ listAddNodeHead(value)
    \/ \E value \in Values : NoDrain /\ listAddNodeTail(value)
    \/ NoDrain /\ listGetIterator(AL_START_HEAD)
    \/ ~NoDrain /\ listRotate
    \/ listReleaseIterator

SpecRotate == Init /\ [][NextRotate]_vars

\* the nodes of the list from the head
Order == SeqNext(nodes, adlist.head, MaxNodes + 1)

\* the sequence s with its last element moved to the front
RotSeq(s) == IF Len(s) <= 1 THEN s ELSE <<s[Len(s)]>> \o SubSeq(s, 1, Len(s) - 1)

RECURSIVE RotTimes(_, _)
RotTimes(s, k) == IF k = 0 THEN s ELSE RotTimes(RotSeq(s), k - 1)

\* the sequence s backwards
Reverse(s) == [i \in 1..Len(s) |-> s[Len(s) + 1 - i]]

\* C22: rotate leaves a list of length at most 1 unchanged; on a longer list
\* it keeps the nodes, their values and the length, puts the former tail at
\* the head and keeps the order of the other nodes; as many rotations as the
\* list has nodes give the original order back.
C22_Rotate ==
    [][listRotate =>
          /\ IF adlist.len <= 1 THEN UNCHANGED <<adlist, nodes>>
             ELSE /\ SeqNext(nodes', adlist'.head, MaxNodes + 1) = RotSeq(Order)
                  /\ adlist'.head = adlist.tail
          /\ adlist'.len = adlist.len
          /\ SeqPrev(nodes', adlist'.tail, MaxNodes + 1)
                = Reverse(SeqNext(nodes', adlist'.head, MaxNodes + 1))
          /\ \A a \in Addrs : /\ nodes'[a].value = nodes[a].value
                              /\ nodes'[a].live = nodes[a].live
          /\ RotTimes(Order, Len(Order)) = Order
          /\ \A k \in 1..(Len(Order) - 1) :
                (\A x, y \in 1..Len(Order) : x # y => Order[x] # Order[y])
                => RotTimes(Order, k) # Order]_vars

\* C22: a list of three nodes with two values has been rotated once since
\* its order was kept: the former tail is the head.
C22_Witness ==
    /\ iter.live
    /\ Len(lhist.start) = 3
    /\ Order = RotSeq(lhist.start)
    /\ nodes[Order[1]].value # nodes[Order[2]].value
    /\ adlist.head = lhist.start[3]
    /\ adlist.tail = lhist.start[2]


(* ---------------------------------- index ------------------------------ *)

\* the indices asked for: around the lengths a list can have, and the ends
\* of the range of a long
Indices == (-(MaxNodes + 1))..(MaxNodes + 1) \cup {LongMin, -(LongMin + 1)}

\* a list is built and taken apart, and nodes are looked up by index
NextIndex ==
    \/ \E value \in Values : listAddNodeHead(value)
    \/ \E value \in Values : listAddNodeTail(value)
    \/ \E node \in Addrs : listDelNode(node)
    \/ \E index \in Indices : listIndex(index)

SpecIndex == Init /\ [][NextIndex]_vars

\* C23: for every i with 0 <= i < len, list-index of i and of i - len return
\* the i-th node from the head; for every index i >= len or i < -len the
\* result is null.
C23_Index ==
    [][\A index \in Indices :
          listIndex(index) =>
             LET len == Len(Order)
             IN  /\ len = adlist.len
                 /\ nret' = IF 0 <= index /\ index < len THEN Order[index + 1]
                            ELSE IF -len <= index /\ index < 0
                                 THEN Order[(index + len) + 1]
                            ELSE NullNode
                 /\ (0 <= index /\ index < len)
                       => listIndexNode(index) = listIndexNode(index - len)]_vars

\* C23: the look-up returned the second of three nodes, which is neither the
\* head nor the tail.
C23_Witness ==
    /\ adlist.len = 3
    /\ nret = Order[2]
    /\ nodes[nret].live


(* ----------------------------------- dup ------------------------------- *)

\* a list is built and rotated, its dup and free methods are set, and it is
\* copied; the copy is released before the next one is made
NextDup ==
    \/ \E value \in Values : copy.len = 0 /\ listAddNodeTail(value)
    \/ copy.len = 0 /\ listRotate
    \/ \E m \in {NULL, "dup"} : copy.len = 0 /\ listSetDupMethod(m)
    \/ \E m \in {NULL, "free"} : copy.len = 0 /\ listSetFreeMethod(m)
    \/ copy.len = 0 /\ listDup
    \/ copy.len # 0 /\ listRelease

SpecDup == Init /\ [][NextDup]_vars

\* the values of the nodes from node n on
ValuesFrom(mem, n) ==
    LET own == SeqNext(mem, n, MaxNodes + 1)
    IN  [i \in DOMAIN own |-> mem[own[i]].value]

\* C24: dup returns a new list with the length of the original and its
\* values in the same order, copied by the dup method if there is one and
\* shared otherwise, with the three methods of the original and nodes of
\* its own; whether it succeeds or fails, it returns, and the nodes, the
\* order and the length of the original are as before.
C24_Dup ==
    [][listDup =>
          /\ lret' \in {"copy", NULL}
          /\ adlist' = adlist
          /\ \A a \in Addrs : nodes[a].live => nodes'[a] = nodes[a]
          /\ lret' = "copy" =>
                /\ copy'.len = adlist.len
                /\ ValuesFrom(nodes', copy'.head)
                      = [i \in 1..adlist.len |->
                            IF adlist.dup # NULL
                            THEN DupOf(ValuesFrom(nodes, adlist.head)[i])
                            ELSE ValuesFrom(nodes, adlist.head)[i]]
                /\ copy'.dup = adlist.dup
                /\ copy'.free = adlist.free
                /\ copy'.match = adlist.match
                /\ \A a \in Addrs :
                      (\E i \in 1..copy'.len :
                          SeqNext(nodes', copy'.head, MaxNodes + 1)[i] = a)
                      => ~nodes[a].live]_vars


(* ------------------------------ adding nodes --------------------------- *)

\* the sequence s with x put in after its k-th element
InsertAt(s, k, x) == SubSeq(s, 1, k) \o <<x>> \o SubSeq(s, k + 1, Len(s))

\* the order of the list after the step
OrderAfter == SeqNext(nodes', adlist'.head, MaxNodes + 1)

\* the step has added one node holding value at position k + 1 of the list
\* and has kept the other nodes, their order and their values
AddedAt(k, value) ==
    /\ adlist'.len = adlist.len + 1
    /\ \E node \in FreeAddrs :
          /\ OrderAfter = InsertAt(Order, k, node)
          /\ nodes'[node].value = value
          /\ adlist'.head = OrderAfter[1]
          /\ adlist'.tail = OrderAfter[Len(OrderAfter)]
    /\ \A a \in LiveAddrs : nodes'[a].value = nodes[a].value

\* C25: push-head makes the new value the first element, push-tail the
\* last, insert puts it right after the anchor node or right before it, with
\* head and tail following; each success adds one to the length and keeps
\* the order of the nodes there were; on allocation failure the call returns
\* NULL and the nodes, the order and the length are unchanged.
C25_AddNode ==
    [][/\ \A value \in Values :
             /\ (listAddNodeHead(value) /\ lret' # NULL) => AddedAt(0, value)
             /\ (listAddNodeTail(value) /\ lret' # NULL)
                   => AddedAt(Len(Order), value)
             /\ \A old_node \in Addrs, after \in {0, 1} :
                   (listInsertNode(old_node, value, after) /\ lret' # NULL)
                   => LET k == CHOOSE i \in DOMAIN Order : Order[i] = old_node
                      IN  AddedAt(IF after # 0 THEN k ELSE k - 1, value)
       /\ ((\E value \in Values :
               \/ listAddNodeHead(value)
               \/ listAddNodeTail(value)
               \/ \E old_node \in Addrs, after \in {0, 1} :
                     listInsertNode(old_node, value, after))
           /\ lret' = NULL) => UNCHANGED <<adlist, nodes>>]_vars

\* C25: the last call to add a node failed on a list that fills the memory,
\* after a node had been put between two others.
C25_Witness ==
    /\ lret = NULL
    /\ adlist.len = MaxNodes
    /\ FreeAddrs = {}
    /\ Order[2] > Order[1]
    /\ Order[2] > Order[3]


(* --------------------- records removed from the timer list ------------- *)

\* C26: during a firing pass the loop never reads or writes a timer record
\* that has been removed from the timer list, also when the callback of a
\* timer deletes its own timer and returns a reschedule value.
C26_RemovedUntouched == ~hist.uaf


(* --------------------- reads of one fired batch ------------------------ *)

\* C27: during the dispatch of one fired batch every fired entry the loop
\* reads has an index below the current setsize, and every slot it reads,
\* when the entry is taken and again after the read callback, is indexed by
\* an fd below the current setsize.
C27_ReadsInBounds ==
    [][/\ FileDispatch => j < setsize /\ fired[j + 1].fd < setsize
       /\ RFileProcReturn => cur.fd < setsize]_vars


(* --------------------- the kinds of events requested ------------------- *)

\* C28: a file callback runs only in a call of process-events whose flags
\* contain FILE, and a timer callback only in a call whose flags contain
\* TIME.
C28_OnlyIfRequested ==
    /\ pc \in {"rfileProc", "wfileProc"} => Has(flags, AE_FILE_EVENTS)
    /\ pc = "timeProc" => Has(flags, AE_TIME_EVENTS)


(* --------------------- every pending timer fires ----------------------- *)

\* the wall clock moves on past the last second the model counts: the origin
\* of the times moves on by one second, so that the clock, lastTime and the
\* fire times keep their order; a fire time before the new origin stays
\* before every time of the clock
Rebase(step) ==
    /\ clock.sec = MaxSec
    /\ clock' = Normalize((clock.sec - 1) * MsPerSec + clock.ms + step)
    /\ lastTime' = IF lastTime > 0 THEN lastTime - 1 ELSE 0
    /\ timeEventHead' =
           [i \in 1..Len(timeEventHead) |->
               IF timeEventHead[i].when_sec > 0
               THEN [timeEventHead[i] EXCEPT !.when_sec = @ - 1]
               ELSE timeEventHead[i]]
    /\ hist' = [hist EXCEPT
           !.due = {[d EXCEPT !.sec = IF @ > 0 THEN @ - 1 ELSE 0] : d \in @}]
    /\ UNCHANGED <<fileVars, dispVars, timeEventNextId, te, maxId, mainVars,
                   listVars, callVars, cb, ret>>

\* the wall clock advances
ClockAdvances == Tick(TickMs) \/ Rebase(TickMs)

\* process-events is invoked with TIME requested
TimeRequested ==
    \E fl \in {AE_TIME_EVENTS, AE_TIME_EVENTS + AE_DONT_WAIT} :
        aeProcessEvents(fl, <<>>)

\* the thread of the loop runs on, and a callback that was called returns
\* one of retvals
LoopRuns(retvals) ==
    \/ FileLoopEnd
    \/ TimeCheck
    \/ TimeLoopStep
    \/ \E retval \in retvals : TimeProcReturn(retval)

\* timers created between the calls and never deleted by the application,
\* one-shot and periodic, the clock advancing without end
NextEvery ==
    \/ \E ms \in {0, TickMs} :
           pc = "idle" /\ aeCreateTimeEvent(ms, "tproc", "d1", NULL)
    \/ TimeRequested
    \/ LoopRuns({AE_NOMORE, 0, TickMs})
    \/ ClockAdvances

SpecEvery == Init /\ [][NextEvery]_vars

\* process-events is invoked again and again, the loop and its callbacks run
\* on, and the clock keeps advancing
SpecEveryFair ==
    /\ SpecEvery
    /\ WF_vars(TimeRequested)
    /\ WF_vars(LoopRuns({AE_NOMORE, 0, TickMs}))
    /\ WF_vars(ClockAdvances)

\* C29: when process-events with TIME requested is invoked repeatedly and
\* the wall clock keeps advancing, every pending timer eventually has its
\* callback invoked, whatever the callbacks of the other timers return.
C29_EveryTimerFires ==
    \A id \in 0..(MaxTimers - 1) :
        (id \in Ids(timeEventHead)) ~> (pc = "timeProc" /\ cb.arg = id)


(* --------------------- callbacks of ripe timers only ------------------- *)

\* C30: a timer callback is invoked only when the timer is ripe: at the
\* invocation the wall time, seconds and milliseconds, is at or after the
\* fire time the timer was given, unless the firing pass detected a backward
\* clock jump when it started.
C30_OnlyWhenRipe ==
    [][TimeLoopStep /\ pc' = "timeProc"
       => \/ hist.skew
          \/ LET due == Due(timeEventHead[IndexOf(timeEventHead, cb'.arg, 1)])
             IN  clock.sec * MsPerSec + clock.ms >= due.sec * MsPerSec + due.ms]_vars


(* --------------------- the client data of a slot ----------------------- *)

\* the descriptors of the registrations
ShareFds == {0}

\* registrations with both functions and both client data, made between the
\* calls of aeProcessEvents and from the callbacks, and the dispatch
NextShare ==
    \/ \E fd \in ShareFds, mask \in FileMasks, proc \in Procs, cd \in ClientDatas :
           aeCreateFileEvent(fd, mask, proc, cd)
    \/ \E fd \in ShareFds, mask \in DelMasks : aeDeleteFileEvent(fd, mask)
    \/ FileTick

SpecShare == Init /\ [][NextShare]_vars

\* C31: a slot holds one client data handle for both directions: a
\* successful add-file stores its handle in the slot whatever the direction
\* and touches no other slot's handle, del-file changes no handle, and a
\* file callback, read or write, is invoked with the handle of its slot.
C31_SharedClientData ==
    [][/\ \A fd \in ShareFds, mask \in FileMasks, proc \in Procs, cd \in ClientDatas :
             aeCreateFileEvent(fd, mask, proc, cd) /\ ret' = AE_OK
             => /\ events'[fd].clientData = cd
                /\ \A o \in DOMAIN events \ {fd} :
                       events'[o].clientData = events[o].clientData
       /\ \A fd \in ShareFds, mask \in DelMasks :
             aeDeleteFileEvent(fd, mask)
             => \A o \in DOMAIN events :
                    events'[o].clientData = events[o].clientData
       /\ (FileDispatch \/ RFileProcReturn) /\ pc' \in {"rfileProc", "wfileProc"}
             => cb'.clientData = events[cb'.arg].clientData]_vars

\* C31: the write callback g is invoked after the read callback f of the same
\* fired entry, with the handle d2 of the slot
C31_Witness ==
    /\ pc = "wfileProc"
    /\ cur.rfired = 1
    /\ cb.proc = "g"
    /\ cb.clientData = "d2"
    /\ events[cb.arg].rfileProc = "f"
    /\ events[cb.arg].clientData = "d2"


(* --------------------- the value process-events returns ---------------- *)

\* C32: the value process-events returns is the number of events processed
\* in the call: the count starts at 0, a fired entry adds one exactly if at
\* least one of its file callbacks was invoked, every invocation of a timer
\* callback adds one, and the call returns the count.
C32_ReturnsProcessed ==
    [][/\ \A fl \in AllFlags, polled \in aeApiPoll :
             aeProcessEvents(fl, polled) /\ pc' # "idle" => processed' = 0
       /\ FileDispatch /\ pc' = "fileLoop" => processed' = processed
       /\ (FileDispatch \/ RFileProcReturn) /\ pc' \in {"rfileProc", "wfileProc"}
             => processed' = processed
       /\ (RFileProcReturn \/ WFileProcReturn) /\ pc' = "fileLoop"
             => processed' = Inc(processed)
       /\ TimeLoopStep /\ pc' = "timeProc" => processed' = processed
       /\ TimeProcReturn(AE_NOMORE) => processed' = Inc(processed)
       /\ (TimeCheck \/ TimeLoopStep) /\ pc' = "idle" => ret' = processed]_vars


(* --------------------- the milliseconds of a fire time ----------------- *)

\* one timer at a time, created and rescheduled with delays of zero, half a
\* second and a second and a half, the clock moving forwards in half seconds
\* and set back between the calls of aeProcessEvents
NextMs ==
    \/ \E ms \in Delays :
           pc = "idle" /\ timeEventHead = <<>>
           /\ aeCreateTimeEvent(ms, "tproc", "d1", NULL)
    \/ TimeTick({AE_NOMORE} \cup Delays)
    \/ Tick(TickMs)
    \/ \E ms \in {0, TickMs} : pc = "idle" /\ ClockBack(1, ms)

SpecMs == Init /\ [][NextMs]_vars

\* C33: the millisecond field of every pending timer lies in [0, 1000),
\* after add-timer calls with nonnegative delays, reschedules with
\* nonnegative return values and the zeroing of the seconds after a backward
\* clock jump.
C33_MsInRange ==
    \A i \in DOMAIN timeEventHead :
        /\ timeEventHead[i].when_ms >= 0
        /\ timeEventHead[i].when_ms < MsPerSec

\* C33: a firing pass has detected a backward clock jump and zeroed the
\* seconds of a pending timer whose milliseconds are not zero
C33_Witness ==
    /\ pc = "timeLoop"
    /\ hist.skew
    /\ \E i \in DOMAIN timeEventHead :
           /\ timeEventHead[i].when_sec = 0
           /\ timeEventHead[i].when_ms = TickMs


(* --------------------- the life of a loop and its finalizers ----------- *)

\* aeDeleteEventLoop (ae.c 165-174): the backend state, the events and fired
\* arrays and the loop itself are released; the list of time events is not
\* walked, so its nodes stay as they are, out of reach, and no finalizer is
\* called. Nothing can be done with the loop afterwards.
aeDeleteEventLoop ==
    /\ pc = "idle"
    /\ main = "out"
    /\ pc' = "deleted"
    /\ UNCHANGED <<fileVars, dispVars, timeVars, mainVars, listVars, passVars,
                   flags, processed, tvp, cb, ret, clock, hist>>

\* the list of time events with its finalizers, until the loop is deleted
NextLife ==
    \/ NextTimerList
    \/ aeDeleteEventLoop

SpecLife == Init /\ [][NextLife]_vars

\* the client data of the timers of the list that have a finalizer and whose
\* identifier is in ids, in the order of the list
Finalizable(list, ids) ==
    LET kept == SelectSeq(list, LAMBDA t : t.id \in ids /\ t.finalizerProc # NULL)
    IN  [i \in 1..Len(kept) |-> kept[i].clientData]

\* C34: over the life of a loop the finalizer of a timer created with one is
\* invoked exactly once, when the timer is removed: every step adds to the
\* finalizer invocations exactly the timers with a finalizer that it removes
\* from the list, and when the loop has been deleted no timer with a
\* finalizer is left that was pending at the deletion.
C34_FinalizedOnce ==
    /\ [][hist'.finLog = hist.finLog \o
              Finalizable(timeEventHead, Ids(timeEventHead) \ Ids(timeEventHead'))]_vars
    /\ [](pc = "deleted" => Finalizable(timeEventHead, Ids(timeEventHead)) = <<>>)

=============================================================================
